---------------------------- MODULE Spec2Model ----------------------------
(***************************************************************************)
(* SolDexLogs (src/main.py): a websocket client that subscribes to all     *)
(* Solana logs, matches the program identifiers invoked by each            *)
(* notification against a registry, decodes the base64 payload of every    *)
(* "Program data:" line and appends one JSON record per (matched program,  *)
(* payload line) to an output file.                                        *)
(*                                                                         *)
(* Text is modelled as sequences of one-character strings, so that the     *)
(* regular expression, strip/split, base64 and hex conversions are         *)
(* computed character by character as the Python code computes them.       *)
(***************************************************************************)
EXTENDS Integers, Sequences, FiniteSets, TLC

(***************************************************************************)
(* Bounds of the model.                                                    *)
(***************************************************************************)
\* Number of iterations of the receive loop (run, "while True") explored.
MaxIters == 2

(***************************************************************************)
(* Characters and text helpers.                                            *)
(***************************************************************************)
Range(s) == {s[i] : i \in DOMAIN s}

\* The standard base64 alphabet, in value order (value = position - 1).
Alphabet ==
    <<"A","B","C","D","E","F","G","H","I","J","K","L","M","N","O","P","Q","R","S","T","U","V",
      "W","X","Y","Z","a","b","c","d","e","f","g","h","i","j","k","l","m","n","o","p","q","r",
      "s","t","u","v","w","x","y","z","0","1","2","3","4","5","6","7","8","9","+","/">>

\* bytes.hex(): lowercase digits.
HexDigits == <<"0","1","2","3","4","5","6","7","8","9","a","b","c","d","e","f">>

\* The regular expression class \w over ASCII: letters, digits, underscore.
WordChars == (Range(Alphabet) \ {"+", "/"}) \cup {"_"}

\* The characters str.strip() removes (ASCII whitespace).
Whitespace == {" ", "\t", "\n", "\r", "\f"}

\* s[a..b] as a sequence (empty when a > b).
Slice(s, a, b) == [i \in 1..(b - a + 1) |-> s[a + i - 1]]

\* Whether pat occurs in s starting at position p.
OccursAt(s, pat, p) ==
    /\ p >= 1
    /\ p + Len(pat) - 1 <= Len(s)
    /\ \A i \in 1..Len(pat) : s[p + i - 1] = pat[i]

\* str.startswith
StartsWith(s, pat) == OccursAt(s, pat, 1)

\* str.strip(): drop leading and trailing whitespace.
Strip(s) ==
    LET keep == {i \in DOMAIN s : s[i] \notin Whitespace}
    IN  IF keep = {} THEN <<>>
        ELSE LET lo == CHOOSE i \in keep : \A j \in keep : i <= j
                 hi == CHOOSE i \in keep : \A j \in keep : j <= i
             IN  Slice(s, lo, hi)

\* s.split(pat)[-1]: the text after the last occurrence of pat, the whole of
\* s when pat does not occur.  (The marker used has no self-overlap, so the
\* last piece of the left-to-right split starts after the rightmost occurrence.)
SplitLast(s, pat) ==
    LET occ == {p \in DOMAIN s : OccursAt(s, pat, p)}
    IN  IF occ = {} THEN s
        ELSE LET p == CHOOSE q \in occ : \A r \in occ : r <= q
             IN  Slice(s, p + Len(pat), Len(s))

(***************************************************************************)
(* self.logpattern = re.compile(r"Program (\w{32,}) invoke")               *)
(***************************************************************************)
\* Minimum length of the identifier token, the 32 of \w{32,}.
MinIdLen == 32

ProgramSp == <<"P","r","o","g","r","a","m"," ">>
SpInvoke == <<" ","i","n","v","o","k","e">>

\* Length of the maximal run of \w characters of s starting at position p.
RECURSIVE WordRun(_, _)
WordRun(s, p) ==
    IF p <= Len(s) /\ s[p] \in WordChars THEN 1 + WordRun(s, p + 1) ELSE 0

\* The pattern matches at p: "Program ", then a greedy run of at least MinIdLen
\* \w characters, then " invoke".  Backtracking to a shorter run cannot help:
\* the character after a shorter run is a \w character, not the space.
MatchShortIds(s, p) ==
    /\ OccursAt(s, ProgramSp, p)
    /\ WordRun(s, p + Len(ProgramSp)) >= 1
    /\ OccursAt(s, SpInvoke, p + Len(ProgramSp) + WordRun(s, p + Len(ProgramSp)))

MatchAt(s, p) ==
    /\ OccursAt(s, ProgramSp, p)
    /\ WordRun(s, p + Len(ProgramSp)) >= MinIdLen
    /\ OccursAt(s, SpInvoke, p + Len(ProgramSp) + WordRun(s, p + Len(ProgramSp)))

\* logpattern.search(log): the leftmost match; matched is FALSE for None,
\* id is match.group(1).
LogPatternSearch(s) ==
    LET hits == {p \in DOMAIN s : MatchAt(s, p)}
    IN  IF hits = {} THEN [matched |-> FALSE, id |-> <<>>]
        ELSE LET p == CHOOSE q \in hits : \A r \in hits : q <= r
             IN  [matched |-> TRUE,
                  id |-> Slice(s, p + Len(ProgramSp),
                               p + Len(ProgramSp) + WordRun(s, p + Len(ProgramSp)) - 1)]

(***************************************************************************)
(* Payload lines: log.startswith("Program data:"),                         *)
(* b64data = log.split("Program data:")[-1].strip()                        *)
(***************************************************************************)
DataMarker == <<"P","r","o","g","r","a","m"," ","d","a","t","a",":">>

IsPayloadLine(log) == StartsWith(log, DataMarker)

B64TextNoStrip(log) == SplitLast(log, DataMarker)

B64Text(log) == Strip(SplitLast(log, DataMarker))

(***************************************************************************)
(* base64.b64decode(b64data) (validate=False): binascii.a2b_base64 in its  *)
(* non-strict mode.  Characters outside the alphabet are discarded; an "=" *)
(* counts as padding only from the third character of a quad on, and a     *)
(* complete padding ends the decoding; a dangling quad is an error.        *)
(***************************************************************************)
B64Value(c) == (CHOOSE i \in DOMAIN Alphabet : Alphabet[i] = c) - 1

RECURSIVE A2bBase64(_, _, _, _, _, _)
A2bBase64(s, i, quad, left, pads, out) ==
    IF i > Len(s)
    THEN IF quad # 0 THEN [ok |-> FALSE, bytes |-> <<>>]
         ELSE [ok |-> TRUE, bytes |-> out]
    ELSE IF s[i] = "="
    THEN IF quad >= 2 /\ quad + pads + 1 >= 4
         THEN [ok |-> TRUE, bytes |-> out]
         ELSE A2bBase64(s, i + 1, quad, left,
                        IF quad >= 2 THEN pads + 1 ELSE pads, out)
    ELSE IF s[i] \notin Range(Alphabet)
    THEN A2bBase64(s, i + 1, quad, left, pads, out)
    ELSE LET v == B64Value(s[i])
         IN  CASE quad = 0 -> A2bBase64(s, i + 1, 1, v, 0, out)
               [] quad = 1 ->
                    A2bBase64(s, i + 1, 2, v % 16, 0,
                              Append(out, (left * 4 + v \div 16) % 256))
               [] quad = 2 ->
                    A2bBase64(s, i + 1, 3, v % 4, 0,
                              Append(out, (left * 16 + v \div 4) % 256))
               [] OTHER ->
                    A2bBase64(s, i + 1, 0, 0, 0,
                              Append(out, (left * 64 + v) % 256))

\* A decoder that raises on any character outside the alphabet and "="
\* (what validate=True would do), used to probe the claims.
B64DecodeStrict(s) ==
    IF \E i \in DOMAIN s : s[i] \notin (Range(Alphabet) \cup {"="})
    THEN [ok |-> FALSE, bytes |-> <<>>]
    ELSE A2bBase64(s, 1, 0, 0, 0, <<>>)

\* ok = FALSE stands for the binascii.Error the call raises.
B64Decode(s) == A2bBase64(s, 1, 0, 0, 0, <<>>)

(***************************************************************************)
(* binary_data.hex()                                                       *)
(***************************************************************************)
RECURSIVE HexNoPad(_)
HexNoPad(bytes) ==
    IF bytes = <<>> THEN <<>>
    ELSE (IF Head(bytes) < 16 THEN <<HexDigits[Head(bytes) + 1]>>
          ELSE <<HexDigits[(Head(bytes) \div 16) + 1], HexDigits[(Head(bytes) % 16) + 1]>>)
         \o HexNoPad(Tail(bytes))

RECURSIVE Hex(_)
Hex(bytes) ==
    IF bytes = <<>> THEN <<>>
    ELSE <<HexDigits[(Head(bytes) \div 16) + 1], HexDigits[(Head(bytes) % 16) + 1]>>
         \o Hex(Tail(bytes))

(***************************************************************************)
(* json.dumps(entry): string values are written between double quotes with *)
(* the quote, the backslash and control characters escaped, so that the    *)
(* serialized entry never contains a raw line break.  A serialized entry   *)
(* is modelled as the record of its serialized values.                     *)
(***************************************************************************)
EscapeChar(c) ==
    CASE c = "\"" -> <<"\\", "\"">>
      [] c = "\\" -> <<"\\", "\\">>
      [] c = "\n" -> <<"\\", "n">>
      [] c = "\r" -> <<"\\", "r">>
      [] c = "\t" -> <<"\\", "t">>
      [] c = "\f" -> <<"\\", "f">>
      [] OTHER -> <<c>>

RECURSIVE Escape(_)
Escape(s) == IF s = <<>> THEN <<>> ELSE EscapeChar(Head(s)) \o Escape(Tail(s))

JsonStringRaw(s) == <<"\"">> \o s \o <<"\"">>

JsonString(s) == <<"\"">> \o Escape(s) \o <<"\"">>

JsonDumps(entry) ==
    [hexsize |-> entry.hexsize,
     timestamp |-> entry.timestamp,
     txid |-> JsonString(entry.txid),
     programid |-> JsonString(entry.programid),
     dexname |-> JsonString(entry.dexname),
     base64 |-> JsonString(entry.base64),
     hex |-> JsonString(entry.hex)]

(***************************************************************************)
(* savelog (lines 52-66): open the output file in append mode and write    *)
(* the serialized entry and a line break.  The file is the sequence of its *)
(* lines.                                                                  *)
(***************************************************************************)
\* A writer that puts the new line before the last line of the file.
savelogBeforeLast(file, entry) ==
    IF file = <<>> THEN <<JsonDumps(entry)>>
    ELSE SubSeq(file, 1, Len(file) - 1) \o <<JsonDumps(entry), file[Len(file)]>>

savelogTruncate(file, entry) == <<JsonDumps(entry)>>

savelogPrepend(file, entry) == <<JsonDumps(entry)>> \o file

savelog(file, entry) == Append(file, JsonDumps(entry))

(***************************************************************************)
(* Inputs: program identifiers, log lines, notifications.                  *)
(***************************************************************************)
\* Two identifiers of the table of __main__ (lines 180 and 195).
JUP6 ==
    <<"J","U","P","6","L","k","b","Z","b","j","S","1","j","K","K","w","a","p","d","H","N","y",
      "7","4","z","c","Z","3","t","L","U","Z","o","i","5","Q","N","y","V","T","a","V","4">>
PUMP ==
    <<"6","E","F","8","r","r","e","c","t","h","R","5","D","k","z","o","n","8","N","w","u","7",
      "8","h","R","v","f","C","K","u","b","J","1","4","M","5","u","B","E","w","F","6","P">>
\* An identifier the table does not hold.
VOTE ==
    <<"V","o","t","e","1","1","1","1","1","1","1","1","1","1","1","1","1","1","1","1","1","1",
      "1","1","1","1","1","1","1","1","1","1","1","1","1","1","1","1","1","1","1","1","1">>
\* A token of 31 characters, one short of what the pattern accepts.
SHORT ==
    <<"C","o","m","p","u","t","e","B","u","d","g","e","t","1","1","1","1","1","1","1","1","1",
      "1","1","1","1","1","1","1","1","1">>

NameJupiterAggV6 == <<"J","u","p","i","t","e","r","A","g","g","V","6">>
NameJupiterAggV4 == <<"J","u","p","i","t","e","r","A","g","g","V","4">>
NamePumpfun == <<"P","u","m","p","f","u","n">>

Tx1 == <<"t","x","1">>

InvokeLine(id, depth) == ProgramSp \o id \o SpInvoke \o <<" ", "[", depth, "]">>
DataLine(text) == DataMarker \o text

LJup1 == InvokeLine(JUP6, "1")
LJup2 == InvokeLine(JUP6, "2")
LPump == InvokeLine(PUMP, "2")
LVote == InvokeLine(VOTE, "1")
LShort == InvokeLine(SHORT, "1")
\* "Program data: AAEC": the bytes 00 01 02.
LData1 == DataLine(<<" ","A","A","E","C">>)
\* "Program data: 3q2+7w==": the bytes de ad be ef.
LData2 == DataLine(<<" ","3","q","2","+","7","w","=","=">>)
\* "Program data: AAE": a dangling quad, b64decode raises.
LBad == DataLine(<<" ","A","A","E">>)
\* "Program data:" with nothing after it: decodes to zero bytes.
LEmpty == DataLine(<<>>)
\* Whitespace around and inside the payload text.
LSpaced == DataLine(<<" "," ","A","A","\n","E","C"," ","\t">>)
\* The marker twice in one line: "Program data: AAE Program data: /w==".
LTwice == DataLine(<<" ","A","A","E"," ">> \o DataMarker \o <<" ","/","w","=","=">>)
LLog == <<"P","r","o","g","r","a","m"," ","l","o","g",":"," ","h","e","l","l","o">>

Lines ==
    {LJup1, LJup2, LPump, LVote, LShort, LData1, LData2, LBad, LEmpty, LSpaced, LTwice, LLog}

\* The log sequences notifications are drawn from.
LogSamples ==
    { <<>>,
      <<LJup1, LData1>>,
      <<LVote, LData1>>,
      <<LShort, LData2>>,
      <<LData1>>,
      <<LJup1, LLog>>,
      <<LData1, LPump>>,
      <<LJup1, LPump, LData1>>,
      <<LJup1, LJup2, LData2>>,
      <<LJup1, LBad, LData2>>,
      <<LPump, LVote, LSpaced>>,
      <<LJup1, LEmpty, LTwice>>,
      <<LJup1, LData1, LPump, LData2>> }

\* What the receive loop can get from ws.recv(): text that is not JSON, a
\* JSON value that is not an object, or a JSON object.  Of an object:
\*   method : "absent", or the value of its "method" key;
\*   params : "absent" (no "params" key), "noresult" (params without
\*            "result"), "novalue" (result without "value"), "value";
\*   hasSig, sig, hasLogs, logs : the keys of params.result.value.
Raw(shape, method, params, hasSig, sig, hasLogs, logs) ==
    [shape |-> shape, method |-> method, params |-> params,
     hasSig |-> hasSig, sig |-> sig, hasLogs |-> hasLogs, logs |-> logs]

Notifications ==
    {Raw("object", "logsNotification", "value", TRUE, Tx1, TRUE, l) : l \in LogSamples}
    \cup {Raw("object", "logsNotification", "value", FALSE, <<>>, TRUE, <<LJup1, LData1>>),
          Raw("object", "logsNotification", "value", TRUE, Tx1, FALSE, <<>>),
          Raw("object", "logsNotification", "novalue", FALSE, <<>>, FALSE, <<>>)}

Raws ==
    Notifications
    \cup {Raw("garbage", "absent", "absent", FALSE, <<>>, FALSE, <<>>),
          Raw("array", "absent", "absent", FALSE, <<>>, FALSE, <<>>),
          \* the reply to logsSubscribe: {"jsonrpc": "2.0", "result": 1, "id": 1}
          Raw("object", "absent", "absent", FALSE, <<>>, FALSE, <<>>),
          Raw("object", "slotNotification", "value", TRUE, Tx1, TRUE, <<LJup1, LData1>>),
          Raw("object", "logsNotification", "absent", FALSE, <<>>, FALSE, <<>>),
          Raw("object", "logsNotification", "noresult", FALSE, <<>>, FALSE, <<>>)}

(***************************************************************************)
(* __init__ (line 47):                                                     *)
(*   self.programids = {k.strip(): v for k, v in progids.items()}          *)
(* The supplied dictionary is the sequence of its items in insertion       *)
(* order; a later item overwrites an earlier one with the same trimmed key.*)
(***************************************************************************)
NoStrip(k) == k

StripKey(k) == Strip(k)

RECURSIVE Registry(_)
Registry(items) ==
    IF items = <<>> THEN <<>>
    ELSE LET rest == Registry(SubSeq(items, 1, Len(items) - 1))
             k == StripKey(items[Len(items)][1])
             v == items[Len(items)][2]
         IN  [x \in DOMAIN rest \cup {k} |-> IF x = k THEN v ELSE rest[x]]

\* The supplied tables: the one of __main__ (abridged), and one whose keys
\* carry surrounding whitespace, two of them trimming to the same identifier.
ProgidsSamples ==
    { << <<JUP6, NameJupiterAggV6>>, <<PUMP, NamePumpfun>> >>,
      << <<JUP6 \o <<" ">>, NameJupiterAggV4>>, <<<<" ">> \o JUP6 \o <<"\n">>, NameJupiterAggV6>> >> }

(***************************************************************************)
(* handler (lines 69-124).                                                 *)
(***************************************************************************)
\* What the handler computes from one log line: the match of the pattern
\* (lines 91-92) and, for a payload line, the text and its decoding (lines
\* 104-109).  Tabulated once per line of the input alphabet.
Analyse(log) ==
    [match |-> LogPatternSearch(log),
     payload |-> IsPayloadLine(log),
     b64data |-> B64Text(log),
     decoded |-> B64Decode(B64Text(log)),
     hexdata |-> Hex(B64Decode(B64Text(log)).bytes)]

LineTable == [l \in Lines |-> Analyse(l)]

\* Lines 86-88: txid and logs, with the defaults of the .get calls.
TxidOf(raw) == IF raw.params = "value" /\ raw.hasSig THEN raw.sig ELSE <<>>

LogsOf(raw) == IF raw.params = "value" /\ raw.hasLogs THEN raw.logs ELSE <<>>

\* Lines 90-93: the set of identifiers matched in the logs.
InvokedIdsOf(logs) ==
    {LineTable[logs[i]].match.id : i \in {j \in DOMAIN logs : LineTable[logs[j]].match.matched}}

\* The orders in which "for pid in invokedids" can iterate a set.
Orders(S) == {s \in [1..Cardinality(S) -> S] : Range(s) = S}

\* A list comprehension in place of the set: the matched identifiers in line
\* order, one per matching line.
InvokeOrdersList(logs) ==
    LET hits == SelectSeq([i \in DOMAIN logs |-> LineTable[logs[i]].match],
                          LAMBDA m : m.matched)
    IN  {[i \in DOMAIN hits |-> hits[i].id]}

\* Lines 90-96: the sequences "for pid in invokedids" can go through.
InvokeOrders(logs) == Orders(InvokedIdsOf(logs))

\* Line 95: the timestamp is read once, before the loops; every entry of
\* the call carries it (k is the entry's position among those built).
CaptureTimePerEntry(now, k) == now + k - 1

CaptureTime(now, k) == now

\* Lines 103-124 for one pid: one entry per payload line that decodes, in
\* the order of the lines; a line whose decoding raises is skipped.
RECURSIVE ScanLogsAbortOnError(_, _, _, _, _)
ScanLogsAbortOnError(logs, i, pid, dexname, txid) ==
    IF i > Len(logs) THEN <<>>
    ELSE LET t == LineTable[logs[i]]
         IN  IF t.payload /\ ~t.decoded.ok THEN <<>>
             ELSE (IF t.payload
                   THEN << [hexsize |-> Len(t.decoded.bytes), timestamp |-> 0, txid |-> txid,
                            programid |-> pid, dexname |-> dexname,
                            base64 |-> t.b64data, hex |-> t.hexdata] >>
                   ELSE <<>>)
                  \o ScanLogsAbortOnError(logs, i + 1, pid, dexname, txid)

\* A scan that attributes by position: only the payload lines that come
\* after a line invoking pid.
RECURSIVE ScanLogsAfterInvoke(_, _, _, _, _)
ScanLogsAfterInvoke(logs, i, pid, dexname, txid) ==
    IF i > Len(logs) THEN <<>>
    ELSE LET t == LineTable[logs[i]]
         IN  (IF /\ t.payload
                 /\ t.decoded.ok
                 /\ \E h \in 1..(i - 1) :
                       LineTable[logs[h]].match.matched /\ LineTable[logs[h]].match.id = pid
              THEN << [hexsize |-> Len(t.decoded.bytes), timestamp |-> 0, txid |-> txid,
                       programid |-> pid, dexname |-> dexname,
                       base64 |-> t.b64data, hex |-> t.hexdata] >>
              ELSE <<>>)
             \o ScanLogsAfterInvoke(logs, i + 1, pid, dexname, txid)

\* A scan that stops after the first entry it builds.
RECURSIVE ScanLogsFirstOnly(_, _, _, _, _)
ScanLogsFirstOnly(logs, i, pid, dexname, txid) ==
    IF i > Len(logs) THEN <<>>
    ELSE LET t == LineTable[logs[i]]
         IN  IF t.payload /\ t.decoded.ok
             THEN << [hexsize |-> Len(t.decoded.bytes), timestamp |-> 0, txid |-> txid,
                      programid |-> pid, dexname |-> dexname,
                      base64 |-> t.b64data, hex |-> t.hexdata] >>
             ELSE ScanLogsFirstOnly(logs, i + 1, pid, dexname, txid)

RECURSIVE ScanLogs(_, _, _, _, _)
ScanLogs(logs, i, pid, dexname, txid) ==
    IF i > Len(logs) THEN <<>>
    ELSE LET t == LineTable[logs[i]]
         IN  (IF t.payload /\ t.decoded.ok
              THEN << [hexsize |-> Len(t.decoded.bytes), timestamp |-> 0, txid |-> txid,
                       programid |-> pid, dexname |-> dexname,
                       base64 |-> t.b64data, hex |-> t.hexdata] >>
              ELSE <<>>)
             \o ScanLogs(logs, i + 1, pid, dexname, txid)

\* Lines 96-100: whether the loop body runs for pid.
IsRegisteredAny(registry, pid) == TRUE

IsRegistered(registry, pid) == pid \in DOMAIN registry

\* Lines 96-124: the entries handed to savelog, in order, for the iteration
\* order `order` of invokedids.  (The registry is read for a pid only
\* once line 97 has found it there.)
RECURSIVE MatchLoopFirstOnly(_, _, _, _, _)
MatchLoopFirstOnly(order, i, registry, logs, txid) ==
    IF i > Len(order) THEN <<>>
    ELSE IF IsRegistered(registry, order[i])
         THEN ScanLogs(logs, 1, order[i], registry[order[i]], txid)
         ELSE MatchLoopFirstOnly(order, i + 1, registry, logs, txid)

\* The loops nested the other way round: for each line, for each pid.
RECURSIVE PidsOfLine(_, _, _, _, _)
PidsOfLine(order, i, registry, log, txid) ==
    IF i > Len(order) THEN <<>>
    ELSE (IF IsRegistered(registry, order[i])
          THEN ScanLogs(<<log>>, 1, order[i], registry[order[i]], txid)
          ELSE <<>>)
         \o PidsOfLine(order, i + 1, registry, log, txid)

RECURSIVE MatchLoopByLine(_, _, _, _, _)
MatchLoopByLine(order, i, registry, logs, txid) ==
    IF i > Len(logs) THEN <<>>
    ELSE PidsOfLine(order, 1, registry, logs[i], txid)
         \o MatchLoopByLine(order, i + 1, registry, logs, txid)

RECURSIVE MatchLoop(_, _, _, _, _)
MatchLoop(order, i, registry, logs, txid) ==
    IF i > Len(order) THEN <<>>
    ELSE (IF IsRegistered(registry, order[i])
          THEN ScanLogs(logs, 1, order[i],
                        IF order[i] \in DOMAIN registry THEN registry[order[i]] ELSE <<>>, txid)
          ELSE <<>>)
         \o MatchLoop(order, i + 1, registry, logs, txid)

Stamp(entries, now) ==
    [k \in DOMAIN entries |-> [entries[k] EXCEPT !.timestamp = CaptureTime(now, k)]]

\* The handler on a parsed message: "ignored" is the return of line 84,
\* "raised" an exception leaving the handler (AttributeError on a value that
\* is not an object, KeyError of line 86), "done" the normal end; entries
\* are the entries it hands to savelog on the way, in order.
HandlerNoFilter(raw, order, registry, now) ==
    IF raw.shape # "object" \/ raw.params \in {"absent", "noresult"}
    THEN [outcome |-> "raised", entries |-> <<>>]
    ELSE [outcome |-> "done",
          entries |-> Stamp(MatchLoop(order, 1, registry, LogsOf(raw), TxidOf(raw)), now)]

Handler(raw, order, registry, now) ==
    IF raw.shape # "object" THEN [outcome |-> "raised", entries |-> <<>>]
    ELSE IF raw.method # "logsNotification" THEN [outcome |-> "ignored", entries |-> <<>>]
    ELSE IF raw.params \in {"absent", "noresult"} THEN [outcome |-> "raised", entries |-> <<>>]
    ELSE [outcome |-> "done",
          entries |-> Stamp(MatchLoop(order, 1, registry, LogsOf(raw), TxidOf(raw)), now)]

\* Of the entries the handler hands to savelog, those that reach the file
\* when the failAt-th savelog call raises (0: none does): the exception
\* leaves the loops of lines 96-124, so the entries after it are never built.
WrittenSkipFailed(entries, failAt) ==
    IF failAt = 0 THEN entries
    ELSE SubSeq(entries, 1, failAt - 1) \o SubSeq(entries, failAt + 1, Len(entries))

Written(entries, failAt) ==
    IF failAt = 0 THEN entries ELSE SubSeq(entries, 1, failAt - 1)

\* The successive savelog calls of one handler call.
RECURSIVE SaveAll(_, _)
SaveAll(file, entries) ==
    IF entries = <<>> THEN file ELSE SaveAll(savelog(file, Head(entries)), Tail(entries))

(***************************************************************************)
(* State.                                                                  *)
(***************************************************************************)
VARIABLES
    pc,          \* where run is: "disconnected" (before websockets.connect),
                 \* "connected" (inside "async with", before ws.send),
                 \* "receiving" (in the while loop), "terminated" (an
                 \* exception left run)
    conn,        \* the websocket: "none", "open", "closed"
    subs,        \* logsSubscribe requests sent on the current connection
    connects,    \* connections established so far
    outbox,      \* the requests sent on the current connection, in order
    progids,     \* the progids argument of __init__: its items, in insertion order
    programids,  \* self.programids
    store,       \* the lines of the output file
    store0,      \* the lines the file held when the process started
    origin,      \* for each line of store, the loop iteration that wrote it (0: an earlier run)
    saved,       \* savelog calls that returned normally
    clock,       \* the instant datetime.now(UTC) returns
    iters,       \* iterations of the receive loop so far
    diags,       \* "[!] WebSocket error" diagnostics printed
    last         \* the last iteration of the receive loop: what was received
                 \* (kind "message") or that recv raised (kind "recverror"), the
                 \* iteration order of invokedids, which savelog call failed, how
                 \* the iteration ended, and the file, the diagnostics count and
                 \* the clock at its start

vars ==
    <<pc, conn, subs, connects, outbox, progids, programids, store, store0, origin, saved,
      clock, iters, diags, last>>

\* A line written by an earlier run of the program.
OldLine ==
    JsonDumps([hexsize |-> 1, timestamp |-> 0, txid |-> <<"t","x","0">>, programid |-> PUMP,
               dexname |-> NamePumpfun, base64 |-> <<"/","w","=","=">>, hex |-> <<"f","f">>])

NoRaw == Raw("none", "absent", "absent", FALSE, <<>>, FALSE, <<>>)

NoLast ==
    [kind |-> "none", raw |-> NoRaw, order |-> <<>>, failAt |-> 0, outcome |-> "none",
     before |-> <<>>, diagsBefore |-> 0, now |-> 0]

Init ==
    /\ pc = "disconnected"
    /\ conn = "none"
    /\ subs = 0
    /\ connects = 0
    /\ outbox = <<>>
    /\ progids \in ProgidsSamples
    /\ programids = Registry(progids)
    /\ store0 \in {<<>>, <<OldLine>>}
    /\ store = store0
    /\ origin = [i \in DOMAIN store0 |-> 0]
    /\ saved = 0
    /\ clock = 1
    /\ iters = 0
    /\ diags = 0
    /\ last = NoLast

(***************************************************************************)
(* run (lines 127-160).                                                    *)
(***************************************************************************)
\* Line 141: websockets.connect succeeds.
Connect ==
    /\ pc = "disconnected"
    /\ pc' = "connected"
    /\ conn' = "open"
    /\ connects' = connects + 1
    /\ subs' = 0
    /\ outbox' = <<>>
    /\ UNCHANGED <<progids, programids, store, store0, origin, saved, clock, iters, diags, last>>

\* Line 141: websockets.connect raises; nothing in run catches it.
ConnectFail ==
    /\ pc = "disconnected"
    /\ pc' = "terminated"
    /\ UNCHANGED <<conn, subs, connects, outbox, progids, programids, store, store0, origin,
                   saved, clock, iters, diags, last>>

\* Lines 142-150: the subscription request.
SubMsg ==
    [jsonrpc |-> "2.0", id |-> 1, method |-> "logsSubscribe",
     params |-> <<"all", [commitment |-> "processed"]>>]

\* A run that enters the loop without sending the request.
SubscribeSkipped ==
    /\ pc = "connected"
    /\ pc' = "receiving"
    /\ UNCHANGED <<conn, subs, connects, outbox, progids, programids, store, store0, origin,
                   saved, clock, iters, diags, last>>

\* Line 151: ws.send of the logsSubscribe request.
Subscribe ==
    /\ pc = "connected"
    /\ pc' = "receiving"
    /\ subs' = subs + 1
    /\ outbox' = Append(outbox, SubMsg)
    /\ UNCHANGED <<conn, connects, progids, programids, store, store0, origin, saved, clock,
                   iters, diags, last>>

\* Line 151: ws.send raises, outside the try of the loop: the "async with"
\* closes the connection and the exception leaves run.
SubscribeFail ==
    /\ pc = "connected"
    /\ pc' = "terminated"
    /\ conn' = "closed"
    /\ UNCHANGED <<subs, connects, outbox, progids, programids, store, store0, origin, saved,
                   clock, iters, diags, last>>

\* A loop whose except clause lets the exception leave run.
AfterErrorTerminates == "terminated"

\* Where run is after the except clause of lines 159-160: back at "while
\* True", on the same connection.
AfterError == "receiving"

\* Lines 154-160, ws.recv() raises (the connection dropped, or is already
\* closed: recv raises ConnectionClosed on every later call too).  The
\* except clause prints the diagnostic and the loop goes round.
RecvError ==
    /\ pc = "receiving"
    /\ iters < MaxIters
    /\ iters' = iters + 1
    /\ conn' = "closed"
    /\ diags' = diags + 1
    /\ pc' = AfterError
    /\ last' = [NoLast EXCEPT !.kind = "recverror", !.outcome = "raised", !.before = store,
                              !.diagsBefore = diags, !.now = clock]
    /\ UNCHANGED <<subs, connects, outbox, progids, programids, store, store0, origin, saved,
                   clock>>

\* Lines 154-160, ws.recv() returns raw: json.loads, then the handler.  The
\* handler's successive savelog calls append to the file; failAt = n > 0 is
\* the n-th of them raising (the open or the write fails), which ends the
\* handler there.  Any exception is caught by line 159.
Receive ==
    /\ pc = "receiving"
    /\ conn = "open"
    /\ iters < MaxIters
    /\ \E raw \in Raws :
       \E order \in InvokeOrders(LogsOf(raw)) :
          LET h == IF raw.shape = "garbage"
                   THEN [outcome |-> "raised", entries |-> <<>>]
                   ELSE Handler(raw, order, programids, clock)
          IN  \E failAt \in 0..Len(h.entries) :
                 LET written == Written(h.entries, failAt)
                     outcome == IF failAt = 0 THEN h.outcome ELSE "raised"
                 IN  /\ store' = SaveAll(store, written)
                     /\ origin' = origin \o [k \in 1..Len(written) |-> iters + 1]
                     /\ saved' = saved + Len(written)
                     /\ diags' = IF outcome = "raised" THEN diags + 1 ELSE diags
                     /\ pc' = IF outcome = "raised" THEN AfterError ELSE "receiving"
                     /\ last' = [kind |-> "message", raw |-> raw, order |-> order,
                                 failAt |-> failAt, outcome |-> outcome, before |-> store,
                                 diagsBefore |-> diags, now |-> clock]
    /\ iters' = iters + 1
    /\ clock' = clock + 1
    /\ UNCHANGED <<conn, subs, connects, outbox, progids, programids, store0>>

Next ==
    \/ Connect
    \/ ConnectFail
    \/ Subscribe
    \/ SubscribeFail
    \/ RecvError
    \/ Receive

Spec == Init /\ [][Next]_vars

(***************************************************************************)
(* The last iteration of the receive loop, as the claims read it.          *)
(***************************************************************************)
IsPrefix(a, b) == Len(a) <= Len(b) /\ \A i \in DOMAIN a : a[i] = b[i]

LastMessage == last.kind = "message"

\* The last iteration handled a logsNotification that reached line 90.
LastNotification ==
    /\ LastMessage
    /\ last.raw.shape = "object"
    /\ last.raw.method = "logsNotification"
    /\ last.raw.params \in {"novalue", "value"}

LastLogs == LogsOf(last.raw)

LastInvoked == InvokedIdsOf(LastLogs)

LastRecognized == LastInvoked \cap DOMAIN programids

\* The lines the last iteration added to the file.
Appended ==
    IF Len(store) >= Len(last.before)
    THEN SubSeq(store, Len(last.before) + 1, Len(store))
    ELSE <<>>

\* Positions of the payload lines that decode, and of those that do not.
DecodableIdx(logs) ==
    {i \in DOMAIN logs : LineTable[logs[i]].payload /\ LineTable[logs[i]].decoded.ok}

UndecodableIdx(logs) ==
    {i \in DOMAIN logs : LineTable[logs[i]].payload /\ ~LineTable[logs[i]].decoded.ok}

\* Line k of the file is the record of identifier pid and of the payload of log.
IsEntryOf(line, pid, log) ==
    /\ line.programid = JsonString(pid)
    /\ line.base64 = JsonString(LineTable[log].b64data)

(***************************************************************************)
(* Claims.                                                                 *)
(***************************************************************************)
\* C1: a notification none of whose invoked identifiers is in the registry
\* leaves the file as it was, whatever payload lines it carries.
C1_UnregisteredNoEntry ==
    (LastNotification /\ LastRecognized = {}) => store = last.before

C1_Witness ==
    /\ LastNotification
    /\ last.outcome = "done"
    /\ LastInvoked # {}
    /\ LastRecognized = {}
    /\ DecodableIdx(LastLogs) # {}
    /\ store = last.before

\* C2 as stated: a notification invoking at least one registered identifier
\* and carrying N payload lines that decode appends exactly N entries.
C2_ExactlyN ==
    (LastNotification /\ last.outcome = "done" /\ LastRecognized # {})
        => Len(Appended) = Cardinality(DecodableIdx(LastLogs))

\* C2 amended: when the handling completes, every registered identifier the
\* notification invokes gets exactly N entries, every entry belongs to one
\* of them, and the total is N when exactly one identifier is recognized.
C2_NPerIdentifier ==
    (LastNotification /\ last.outcome = "done")
        => /\ \A pid \in LastRecognized :
                Cardinality({k \in DOMAIN Appended : Appended[k].programid = JsonString(pid)})
                    = Cardinality(DecodableIdx(LastLogs))
           /\ \A k \in DOMAIN Appended :
                \E pid \in LastRecognized : Appended[k].programid = JsonString(pid)
           /\ Cardinality(LastRecognized) = 1
                => Len(Appended) = Cardinality(DecodableIdx(LastLogs))

C2_Witness ==
    /\ LastNotification
    /\ last.outcome = "done"
    /\ Cardinality(LastRecognized) = 2
    /\ Cardinality(DecodableIdx(LastLogs)) = 2
    /\ Len(Appended) = 4

\* C3: when the handling completes, the appended entries are in one-to-one
\* correspondence with the pairs (recognized identifier, decodable payload
\* line), R x N in all, and two entries of the same payload line agree on
\* base64, hex, hexsize, timestamp and txid and differ in programid.
C3_CrossProduct ==
    (LastNotification /\ last.outcome = "done")
        => LET pairs == LastRecognized \X DecodableIdx(LastLogs)
           IN  /\ Len(Appended)
                    = Cardinality(LastRecognized) * Cardinality(DecodableIdx(LastLogs))
               /\ \E f \in [DOMAIN Appended -> pairs] :
                    /\ \A k1, k2 \in DOMAIN Appended : f[k1] = f[k2] => k1 = k2
                    /\ \A k \in DOMAIN Appended :
                         IsEntryOf(Appended[k], f[k][1], LastLogs[f[k][2]])
                    /\ \A k1, k2 \in DOMAIN Appended :
                         (k1 # k2 /\ f[k1][2] = f[k2][2])
                            => /\ Appended[k1].base64 = Appended[k2].base64
                               /\ Appended[k1].hex = Appended[k2].hex
                               /\ Appended[k1].hexsize = Appended[k2].hexsize
                               /\ Appended[k1].timestamp = Appended[k2].timestamp
                               /\ Appended[k1].txid = Appended[k2].txid
                               /\ Appended[k1].programid # Appended[k2].programid

C3_Witness ==
    /\ LastNotification
    /\ last.outcome = "done"
    /\ Cardinality(LastRecognized) = 2
    /\ Cardinality(DecodableIdx(LastLogs)) = 1
    /\ Len(Appended) = 2
    /\ Appended[1].base64 = Appended[2].base64
    /\ Appended[1].dexname # Appended[2].dexname

\* C4: a payload line whose decoding raises produces no entry, the handler
\* still ends normally (no diagnostic of the receive loop), and every
\* decodable payload line after it has its entry for every recognized
\* identifier.
C4_DecodeFailureIsLocal ==
    (LastNotification /\ last.failAt = 0 /\ UndecodableIdx(LastLogs) # {})
        => /\ last.outcome = "done"
           /\ diags = last.diagsBefore
           /\ \A b \in UndecodableIdx(LastLogs) : \A k \in DOMAIN Appended :
                Appended[k].base64 # JsonString(LineTable[LastLogs[b]].b64data)
           /\ \A b \in UndecodableIdx(LastLogs) : \A i \in DecodableIdx(LastLogs) :
                i > b => \A pid \in LastRecognized :
                            \E k \in DOMAIN Appended : IsEntryOf(Appended[k], pid, LastLogs[i])

C4_Witness ==
    /\ LastNotification
    /\ last.outcome = "done"
    /\ LastRecognized # {}
    /\ \E b \in UndecodableIdx(LastLogs) : \E i \in DecodableIdx(LastLogs) : i > b
    /\ Len(Appended) >= 1

\* C5: all the entries written by one handler call carry the same
\* timestamp, the instant read at the start of the call.
C5_SharedTimestamp ==
    /\ \A i, j \in DOMAIN store \cap DOMAIN origin :
          (origin[i] > 0 /\ origin[i] = origin[j]) => store[i].timestamp = store[j].timestamp
    /\ LastMessage => \A k \in DOMAIN Appended : Appended[k].timestamp = last.now

C5_Witness ==
    /\ Len(store) = Len(origin)
    /\ \E i, j \in DOMAIN store :
          /\ origin[i] > 0
          /\ origin[i] = origin[j]
          /\ store[i].programid # store[j].programid
    /\ \E i, j \in DOMAIN store :
          /\ origin[i] > 0
          /\ origin[i] = origin[j]
          /\ store[i].base64 # store[j].base64

\* A serialized entry holds no raw line break.
SingleLine(line) ==
    \A v \in {line.txid, line.programid, line.dexname, line.base64, line.hex} :
        "\n" \notin Range(v)

\* C6: the file only grows at its end: what it held at the start of the
\* process and at the start of the last iteration is a prefix of what it
\* holds now, it holds one more line per savelog call that returned, and
\* every line is a single line.
C6_AppendOnly ==
    /\ IsPrefix(store0, store)
    /\ IsPrefix(last.before, store)
    /\ Len(store) = Len(store0) + saved
    /\ \A i \in DOMAIN store : SingleLine(store[i])

C6_Witness ==
    /\ store0 # <<>>
    /\ saved >= 2
    /\ last.outcome \in {"ignored", "raised"}
    /\ IsPrefix(store0, store)
    /\ Len(store) = Len(store0) + saved

\* C7: entries are in the file in the order their notifications were
\* received.  Each received message is handled at a later instant than the
\* one before, so the instant identifies the notification: the lines of
\* the last iteration are the entries of the message just received and come
\* after every older line, and instants never decrease along the file.
C7_ReceiptOrder ==
    /\ \A i, j \in DOMAIN store : i < j => store[i].timestamp <= store[j].timestamp
    /\ LastMessage =>
          /\ \A k \in DOMAIN Appended : Appended[k].timestamp = last.now
          /\ \A i \in DOMAIN last.before : last.before[i].timestamp < last.now
          /\ IsPrefix(last.before, store)

C7_Witness ==
    \E i, j \in DOMAIN store :
        /\ i < j
        /\ 0 < store[i].timestamp
        /\ store[i].timestamp < store[j].timestamp
        /\ LastMessage
        /\ store[j].timestamp = last.now

C9_ReconnectAfterRecvError ==
    (last.kind = "recverror" /\ pc = "receiving")
        => (conn = "open" /\ connects > 1 /\ subs = 1)

\* C10 as stated: no transport failure makes run terminate.
C10_NoTerminalState == pc # "terminated"

\* C11: an exception raised while a received message is handled (json.loads
\* on text that is not JSON, the KeyError of line 86, the AttributeError on
\* a value that is not an object, a savelog call that raises) is caught by
\* line 159: one diagnostic is printed and run is back at recv on the same
\* connection.
C11_HandlingErrorCaught ==
    (LastMessage /\ last.outcome = "raised")
        => /\ pc = "receiving"
           /\ conn = "open"
           /\ diags = last.diagsBefore + 1
           /\ IsPrefix(last.before, store)

C11_Witness ==
    /\ LastMessage
    /\ last.outcome = "raised"
    /\ last.raw.method = "logsNotification"
    /\ last.raw.params = "absent"
    /\ pc = "receiving"
    /\ iters = MaxIters
    /\ diags = MaxIters

\* The text of a serialized string value, without its quotes.
Unquoted(v) == SubSeq(v, 2, Len(v) - 1)

\* C12: every line of the file has a hex field of twice as many characters
\* as its hexsize field says, and hexsize is not negative.
C12_HexLength ==
    \A i \in DOMAIN store :
        /\ store[i].hexsize >= 0
        /\ Len(Unquoted(store[i].hex)) = 2 * store[i].hexsize

C12_Witness ==
    /\ Len(store) = Len(origin)
    /\ \E i \in DOMAIN store : origin[i] > 0 /\ store[i].hexsize = 0
    /\ \E i \in DOMAIN store :
          origin[i] > 0 /\ store[i].hexsize = 3 /\ Len(Unquoted(store[i].hex)) = 6

\* The text after the "Program data:" the line starts with.
AfterPrefix(log) == Slice(log, Len(DataMarker) + 1, Len(log))

\* A line of the file is the record of (pid, log) with the payload text b64.
IsRecordOf(line, pid, b64) ==
    /\ pid \in LastInvoked
    /\ pid \in DOMAIN programids
    /\ line.programid = JsonString(pid)
    /\ line.dexname = JsonString(programids[pid])
    /\ line.txid = JsonString(IF last.raw.params = "value" /\ last.raw.hasSig
                              THEN last.raw.sig ELSE <<>>)
    /\ line.base64 = JsonString(b64)
    /\ B64Decode(b64).ok
    /\ line.hex = JsonString(Hex(B64Decode(b64).bytes))
    /\ line.hexsize = Len(B64Decode(b64).bytes)

C14_SubscribedOnce ==
    /\ subs = Len(outbox)
    /\ subs <= 1
    /\ \A i \in DOMAIN outbox :
          /\ outbox[i].method = "logsSubscribe"
          /\ outbox[i].params = <<"all", [commitment |-> "processed"]>>
    /\ (pc = "receiving" \/ iters > 0) => (subs = 1 /\ conn # "none" /\ connects >= 1)
    /\ pc \in {"disconnected", "connected"} => (subs = 0 /\ iters = 0)

C14_Witness ==
    /\ pc = "receiving"
    /\ iters = MaxIters
    /\ LastMessage
    /\ Len(outbox) = 1
    /\ outbox[1].method = "logsSubscribe"

\* C15: a message is handled to its end before the next one is received, so
\* the entries of one notification are never interleaved with those of
\* another: the lines of one handler call (one origin, one instant) are
\* contiguous in the file, and when the last message was received every
\* line of every earlier message was already in the file.
C15_NoInterleaving ==
    /\ \A i, j, k \in DOMAIN store \cap DOMAIN origin :
          (i < j /\ j < k /\ origin[i] = origin[k]) => origin[j] = origin[i]
    /\ \A i, j, k \in DOMAIN store :
          (i < j /\ j < k /\ store[i].timestamp = store[k].timestamp)
              => store[j].timestamp = store[i].timestamp
    /\ LastMessage =>
          \A i \in DOMAIN store : store[i].timestamp < last.now => i <= Len(last.before)

C15_Witness ==
    /\ LastMessage
    /\ Len(Appended) >= 1
    /\ Len(last.before) >= 2
    /\ last.before[Len(last.before)].timestamp > 0
    /\ last.before[Len(last.before) - 1].timestamp = last.before[Len(last.before)].timestamp
    /\ Appended[1].timestamp > last.before[Len(last.before)].timestamp

\* Positions of the lines of logs in which the pattern matches pid.
InvokeLinesOf(logs, pid) ==
    {i \in DOMAIN logs : LineTable[logs[i]].match.matched /\ LineTable[logs[i]].match.id = pid}

\* C16: a recognized identifier matched in several lines of a notification
\* counts once: when the handling completes, each decodable payload line has
\* exactly one entry for it, N entries for N such lines.
C16_MultiplicityDiscarded ==
    (LastNotification /\ last.outcome = "done")
        => \A pid \in LastRecognized :
              Cardinality(InvokeLinesOf(LastLogs, pid)) >= 2
                  => /\ Cardinality({k \in DOMAIN Appended :
                                        Appended[k].programid = JsonString(pid)})
                          = Cardinality(DecodableIdx(LastLogs))
                     /\ \A i \in DecodableIdx(LastLogs) :
                          Cardinality({k \in DOMAIN Appended :
                                          IsEntryOf(Appended[k], pid, LastLogs[i])})
                              = Cardinality({j \in DecodableIdx(LastLogs) :
                                                LineTable[LastLogs[j]].b64data
                                                    = LineTable[LastLogs[i]].b64data})

C16_Witness ==
    /\ LastNotification
    /\ last.outcome = "done"
    /\ Cardinality(InvokeLinesOf(LastLogs, JUP6)) = 2
    /\ JUP6 \in LastRecognized
    /\ Cardinality(DecodableIdx(LastLogs)) = 1
    /\ Len(Appended) = 1
    /\ Appended[1].programid = JsonString(JUP6)

\* Position of the last line before position j in which the pattern matches
\* (0 when there is none).
LastInvokeBefore(logs, j) ==
    LET hits == {i \in 1..(j - 1) : LineTable[logs[i]].match.matched}
    IN  IF hits = {} THEN 0 ELSE CHOOSE i \in hits : \A h \in hits : h <= i

\* C17 as stated: every appended entry is the entry of a payload line and
\* of the program most recently invoked before that line.
C17_MostRecentInvoke ==
    (LastNotification /\ last.outcome = "done")
        => \A k \in DOMAIN Appended :
              \E j \in DecodableIdx(LastLogs) :
                 /\ LastInvokeBefore(LastLogs, j) # 0
                 /\ IsEntryOf(Appended[k],
                              LineTable[LastLogs[LastInvokeBefore(LastLogs, j)]].match.id,
                              LastLogs[j])

\* C17 amended: position plays no part.  When the handling completes, a
\* decodable payload line has an entry for every recognized identifier of
\* the notification, wherever its invoke lines are, and every entry of the
\* line belongs to a recognized identifier.
C17_EveryRecognizedIdentifier ==
    (LastNotification /\ last.outcome = "done")
        => \A j \in DecodableIdx(LastLogs) :
              {Appended[k].programid :
                  k \in {n \in DOMAIN Appended :
                            Appended[n].base64 = JsonString(LineTable[LastLogs[j]].b64data)}}
                  = {JsonString(pid) : pid \in LastRecognized}

C17_Witness ==
    /\ LastNotification
    /\ last.outcome = "done"
    /\ \E j \in DecodableIdx(LastLogs) : \E pid \in LastRecognized :
          /\ \A i \in InvokeLinesOf(LastLogs, pid) : i > j
          /\ \E k \in DOMAIN Appended : IsEntryOf(Appended[k], pid, LastLogs[j])
    /\ Len(Appended) = 1

\* The supplied keys, trimmed, and the items whose key trims to id.
TrimmedKeys == {Strip(progids[i][1]) : i \in DOMAIN progids}

ItemsOf(id) == {i \in DOMAIN progids : Strip(progids[i][1]) = id}

\* C18: the registry holds exactly the trimmed supplied keys, each with the
\* name of the last item supplied for it, in every state (nothing modifies
\* it after construction); an invoked identifier gets entries exactly when
\* some supplied key trims to it (and there is a payload to record).
C18_Registry ==
    /\ DOMAIN programids = TrimmedKeys
    /\ \A id \in TrimmedKeys :
          programids[id] = progids[CHOOSE i \in ItemsOf(id) : \A j \in ItemsOf(id) : j <= i][2]
    /\ (LastNotification /\ last.outcome = "done")
          => \A pid \in LastInvoked :
                (pid \in TrimmedKeys /\ DecodableIdx(LastLogs) # {})
                    <=> \E k \in DOMAIN Appended : Appended[k].programid = JsonString(pid)

C18_Witness ==
    /\ Cardinality(ItemsOf(JUP6)) = 2
    /\ \A i \in ItemsOf(JUP6) : progids[i][1] # JUP6
    /\ programids[JUP6] = NameJupiterAggV6
    /\ LastNotification
    /\ last.outcome = "done"
    /\ PUMP \in LastInvoked
    /\ \E k \in DOMAIN Appended :
          /\ Appended[k].programid = JsonString(JUP6)
          /\ Appended[k].dexname = JsonString(NameJupiterAggV6)
    /\ \A k \in DOMAIN Appended : Appended[k].programid # JsonString(PUMP)

\* The positions of the decodable payload lines of logs, in increasing order.
DecodableSeq(logs) ==
    SelectSeq([i \in DOMAIN logs |-> i], LAMBDA i : i \in DecodableIdx(logs))

\* The lines of the last iteration written for pid, in file order.
GroupOf(pid) == SelectSeq(Appended, LAMBDA e : e.programid = JsonString(pid))

\* C19: when the handling completes, the entries of one recognized
\* identifier are contiguous in the file and follow the order of their
\* payload lines in logs; the groups follow one another in the order the
\* set invokedids was iterated in, whatever that order was.
C19_GroupedByIdentifier ==
    (LastNotification /\ last.outcome = "done")
        => /\ \A k1, k2, k3 \in DOMAIN Appended :
                (k1 < k2 /\ k2 < k3 /\ Appended[k1].programid = Appended[k3].programid)
                    => Appended[k2].programid = Appended[k1].programid
           /\ \A pid \in LastRecognized :
                /\ Len(GroupOf(pid)) = Len(DecodableSeq(LastLogs))
                /\ \A n \in DOMAIN GroupOf(pid) :
                     IsEntryOf(GroupOf(pid)[n], pid, LastLogs[DecodableSeq(LastLogs)[n]])
           /\ \A k1, k2 \in DOMAIN Appended :
                k1 < k2 =>
                   \E a, b \in DOMAIN last.order :
                      /\ a <= b
                      /\ Appended[k1].programid = JsonString(last.order[a])
                      /\ Appended[k2].programid = JsonString(last.order[b])

\* Two identifiers with two payload lines each, the group of the identifier
\* invoked second in logs written first.
C19_Witness ==
    /\ LastNotification
    /\ last.outcome = "done"
    /\ Cardinality(LastRecognized) = 2
    /\ Len(DecodableSeq(LastLogs)) = 2
    /\ Len(Appended) = 4
    /\ InvokeLinesOf(LastLogs, JUP6) = {1}
    /\ Appended[1].programid = JsonString(PUMP)
    /\ Appended[2].programid = JsonString(PUMP)
    /\ Appended[3].programid = JsonString(JUP6)
    /\ Appended[1].base64 # Appended[2].base64

\* The entries the last handler call hands to savelog when no call fails.
LastPlanned ==
    IF last.raw.shape = "garbage" THEN <<>>
    ELSE Handler(last.raw, last.order, programids, last.now).entries

\* C20: when the savelog call for the i-th entry of a notification raises,
\* exactly the i-1 entries before it are in the file, after the lines that
\* were there, none of the later entries is written, one diagnostic is
\* printed and run is in its receive loop on the open connection.
C20_PartialAppend ==
    (LastNotification /\ last.failAt > 0)
        => /\ last.failAt <= Len(LastPlanned)
           /\ last.outcome = "raised"
           /\ IsPrefix(last.before, store)
           /\ Len(store) = Len(last.before) + last.failAt - 1
           /\ \A k \in DOMAIN Appended : Appended[k] = JsonDumps(LastPlanned[k])
           /\ \A k \in DOMAIN last.before : last.before[k].timestamp # last.now
           /\ diags = last.diagsBefore + 1
           /\ pc = "receiving"
           /\ conn = "open"

\* The second of four savelog calls fails: one line is written, and the
\* other recognized identifier has none.
C20_Witness ==
    /\ LastNotification
    /\ last.failAt = 2
    /\ Len(LastPlanned) = 4
    /\ Cardinality(LastRecognized) = 2
    /\ Len(Appended) = 1
    /\ \E pid \in LastRecognized :
          \A k \in DOMAIN store : store[k].timestamp = last.now => store[k].programid # JsonString(pid)
    /\ pc = "receiving"

=============================================================================
